---- MODULE Spec2Model ----
(***************************************************************************)
(* The live voice session manager of Lumiere (src/components/VoiceMode.tsx)*)
(* as a state machine: one VoiceMode component instance, its refs, the      *)
(* asynchronous startLiveSession invocations it has in flight, and the     *)
(* platform objects (audio contexts, microphone streams, script processors,*)
(* live sessions) those invocations create.  The host is App.tsx: it       *)
(* renders VoiceMode with isOpen = isVoiceModeOpen and                     *)
(* onClose = () => setIsVoiceModeOpen(false).                              *)
(*                                                                         *)
(* An object is named by the number of the startLiveSession invocation    *)
(* that created it; a ref holds such a number, or NULL.                    *)
(*                                                                         *)
(* One step of the model is one run-to-completion of JavaScript: an effect *)
(* function, a callback, or the continuation of an await together with the *)
(* promise reactions it releases.  React runs an effect's destroy function *)
(* and the next effect body back to back: flush = "create" is the point    *)
(* between the two, where nothing else can run.                            *)
(*                                                                         *)
(* The transport (@google/genai live.connect) is the environment: it calls *)
(* onopen before the connect promise fulfils, calls onclose once when an   *)
(* open session is closed by either side, delivers messages to an open or  *)
(* closing session, and calls no callback for a connect that rejects.      *)
(*                                                                         *)
(* The host passes the props of App.tsx 393-398: onClose and               *)
(* onProductsFound, and neither transcript callback.  Whether its          *)
(* onProductsFound throws is an input of the call it is made for.          *)
(***************************************************************************)
EXTENDS Integers, Sequences, FiniteSets, TLC

\* ---------------------------------------------------------------- bounds
MaxStarts == 2   \* startLiveSession invocations in one run
MaxFrames == 2   \* audioprocess events delivered in one run
MaxMsgs   == 2   \* inbound server messages delivered in one run
MaxClock  == 1   \* ticks of one output context's clock
MaxDur    == 2   \* longest decoded playback buffer
MaxCalls  == 2   \* function calls in one toolCall message
MaxSamples == 2  \* samples in one capture buffer
MaxOff    == 3   \* sample values taken on each side of 0, 1/2 and 1

\* Float32 samples are dyadic rationals: a sample is n / SampleDen.
SampleDen == 131072

NULL == 0
Invs == 1..MaxStarts

VARIABLES
  apiKey,                \* process.env.API_KEY is set
  alive,                 \* the component is in the React tree
  isOpen,                \* host state isVoiceModeOpen (the isOpen prop)
  effOpen,               \* the isOpen the last committed effect ran with
  flush,                 \* "idle", or "create": destroy ran, create is next
  isMountedRef,
  hasDestroy,            \* the effect last run returned its destroy (95)
  audioContextRef, outputContextRef, streamRef,
  processorRef, sourceRef, activeSessionRef,
  nextStartTimeRef, userTranscriptBuffer, modelTranscriptBuffer,
  nStarts,               \* startLiveSession invocations so far
  pc,                    \* where each invocation of startLiveSession is
  inCtx, outCtx,         \* state of each invocation's AudioContexts
  outNow,                \* currentTime of each output context
  stream,                \* state of each invocation's MediaStream
  proc,                  \* state of each invocation's ScriptProcessorNode
  tr,                    \* state of each invocation's transport session
  thenQ,                 \* sessionPromise.then callbacks not yet run
  decoding,              \* onmessage handlers awaiting decodeAudioData
  nFrames, nMsgs,
  muted,                 \* the host's mute request (spec 4.3, 6)
  \* ---- observation only: what the program did, never read by it
  evts,                  \* effects of the last step, in order
  onCloseCount,          \* host onClose calls made for each invocation
  closeReq,              \* session.close() calls on each session
  stopCount,             \* track.stop() passes over each stream
  tornUpTo,              \* invocations started when cleanup last began
  fault,                 \* onerror was delivered while the session was Open
  remoteClosed,          \* the remote closed the session while it was Open
  sched,                 \* buffers scheduled since the last reset
  endedSince,            \* a session ended since the host last opened
  \* ---- one capture buffer inside onaudioprocess (161-166)
  inputData,             \* its samples, as numerators over SampleDen
  int16                  \* the Int16Array filled so far

pcm == <<inputData, int16>>
refs == <<audioContextRef, outputContextRef, streamRef, processorRef,
          sourceRef, activeSessionRef>>
bufs == <<nextStartTimeRef, userTranscriptBuffer, modelTranscriptBuffer>>
objs == <<inCtx, outCtx, stream, proc, tr>>
hist == <<onCloseCount, closeReq, stopCount, tornUpTo, fault, remoteClosed, sched,
          endedSince>>
vars == <<apiKey, pcm, hasDestroy, alive, isOpen, effOpen, flush,
          isMountedRef, refs, bufs, nStarts, pc, objs, outNow, thenQ,
          decoding, nFrames, nMsgs, muted, evts, hist>>

\* ------------------------------------------------------------- helpers
\* The smaller of two times.
Min(a, b) == IF a <= b THEN a ELSE b

Max(a, b) == IF a >= b THEN a ELSE b

\* The session of invocation i is Open: handshake resolved, not closed by
\* either side, and no teardown has begun since it was started.
SessOpen(i) == tr[i] = "open" /\ i > tornUpTo

\* One observed effect of an object or continuation of invocation i: its
\* kind k, its argument a, whether session i was Open and whether teardown
\* had begun for invocation i when it happened.
Evt(k, i, open, torn, a) ==
  [k |-> k, i |-> i, open |-> open, torn |-> torn, a |-> a]
EvtNow(k, i, a) == Evt(k, i, SessOpen(i), i <= tornUpTo, a)

\* The component after construction (VoiceMode.tsx 16-36).
Constructed ==
  /\ apiKey \in BOOLEAN
  /\ alive = TRUE
  /\ isOpen = FALSE
  /\ effOpen = FALSE
  /\ flush = "create"
  /\ isMountedRef = FALSE
  /\ hasDestroy = FALSE
  /\ audioContextRef = NULL /\ outputContextRef = NULL /\ streamRef = NULL
  /\ processorRef = NULL /\ sourceRef = NULL /\ activeSessionRef = NULL
  /\ nextStartTimeRef = 0
  /\ userTranscriptBuffer = <<>> /\ modelTranscriptBuffer = <<>>
  /\ nStarts = 0
  /\ pc = [i \in Invs |-> "none"]
  /\ inCtx = [i \in Invs |-> "none"]
  /\ outCtx = [i \in Invs |-> "none"]
  /\ outNow = [i \in Invs |-> 0]
  /\ stream = [i \in Invs |-> "none"]
  /\ proc = [i \in Invs |-> "none"]
  /\ tr = [i \in Invs |-> "none"]
  /\ thenQ = [i \in Invs |-> <<>>]
  /\ decoding = {}
  /\ nFrames = 0 /\ nMsgs = 0
  /\ muted = FALSE
  /\ evts = <<>>
  /\ onCloseCount = [i \in Invs |-> 0]
  /\ closeReq = [i \in Invs |-> 0]
  /\ stopCount = [i \in Invs |-> 0]
  /\ tornUpTo = 0
  /\ fault = [i \in Invs |-> FALSE]
  /\ remoteClosed = [i \in Invs |-> FALSE]
  /\ sched = <<>>
  /\ endedSince = FALSE

Init == Constructed /\ inputData = <<>> /\ int16 = <<>>

\* cleanup as it would be without the `if (ref.current)` tests of 41, 51,
\* 55, 61, 67 and 73: a call on a null ref raises a TypeError, caught for
\* the session (44) and leaving cleanup at the processor (52).
cleanupEvtsUnguarded ==
  (IF activeSessionRef # NULL
     THEN <<EvtNow("session.close", activeSessionRef, 0)>>
     ELSE <<Evt("console.error", NULL, FALSE, FALSE, "session.close")>>)
  \o (IF processorRef # NULL
       THEN <<EvtNow("processor.disconnect", processorRef, 0)>>
       ELSE <<Evt("throw", NULL, FALSE, FALSE, "processor.disconnect")>>)
  \o (IF processorRef # NULL /\ sourceRef # NULL
       THEN <<EvtNow("source.disconnect", sourceRef, 0)>> ELSE <<>>)
  \o (IF processorRef # NULL /\ sourceRef # NULL /\ streamRef # NULL
       THEN <<EvtNow("track.stop", streamRef, 0),
              EvtNow("inputCtx.close", audioContextRef, 0),
              EvtNow("outputCtx.close", outputContextRef, 0),
              Evt("reset", NULL, FALSE, FALSE, 0)>>
       ELSE <<>>)

\* ------------------------------------------------------------- cleanup
\* VoiceMode.tsx 39-84.  The effects cleanup has on the objects the refs
\* hold, in the order of the code.
cleanupEvts ==
  (IF activeSessionRef # NULL
     THEN <<EvtNow("session.close", activeSessionRef, 0)>> ELSE <<>>)
  \o (IF processorRef # NULL
       THEN <<EvtNow("processor.disconnect", processorRef, 0)>> ELSE <<>>)
  \o (IF sourceRef # NULL
       THEN <<EvtNow("source.disconnect", sourceRef, 0)>> ELSE <<>>)
  \o (IF streamRef # NULL
       THEN <<EvtNow("track.stop", streamRef, 0)>> ELSE <<>>)
  \o (IF audioContextRef # NULL /\ inCtx[audioContextRef] # "closed"
       THEN <<EvtNow("inputCtx.close", audioContextRef, 0)>> ELSE <<>>)
  \o (IF outputContextRef # NULL /\ outCtx[outputContextRef] # "closed"
       THEN <<EvtNow("outputCtx.close", outputContextRef, 0)>> ELSE <<>>)
  \o <<Evt("reset", NULL, FALSE, FALSE, 0)>>

cleanup ==
  \* 1. close the session
  /\ tr' = IF activeSessionRef # NULL /\ tr[activeSessionRef] = "open"
             THEN [tr EXCEPT ![activeSessionRef] = "closing"] ELSE tr
  /\ closeReq' = IF activeSessionRef # NULL
                   THEN [closeReq EXCEPT ![activeSessionRef] = @ + 1]
                   ELSE closeReq
  /\ activeSessionRef' = NULL
  \* 2. stop audio processing
  /\ proc' = IF processorRef # NULL
               THEN [proc EXCEPT ![processorRef] = "disconnected"] ELSE proc
  /\ processorRef' = NULL
  /\ sourceRef' = NULL
  \* 3. stop the microphone stream
  /\ stream' = IF streamRef # NULL
                 THEN [stream EXCEPT ![streamRef] = "stopped"] ELSE stream
  /\ stopCount' = IF streamRef # NULL
                    THEN [stopCount EXCEPT ![streamRef] = @ + 1] ELSE stopCount
  /\ streamRef' = NULL
  \* 4. close the audio contexts
  /\ inCtx' = IF audioContextRef # NULL
                THEN [inCtx EXCEPT ![audioContextRef] = "closed"] ELSE inCtx
  /\ audioContextRef' = NULL
  /\ outCtx' = IF outputContextRef # NULL
                 THEN [outCtx EXCEPT ![outputContextRef] = "closed"] ELSE outCtx
  /\ outputContextRef' = NULL
  \* 5. reset the buffers
  /\ userTranscriptBuffer' = <<>>
  /\ modelTranscriptBuffer' = <<>>
  /\ nextStartTimeRef' = 0
  /\ sched' = <<>>
  /\ tornUpTo' = nStarts

\* What cleanup leaves alone.
cleanupFrame ==
  UNCHANGED <<apiKey, pcm, nStarts, pc, outNow, thenQ, decoding, nFrames, nMsgs,
              muted, onCloseCount, fault, remoteClosed, endedSince>>

\* --------------------------------------------------------------- host
\* App.tsx 302: the Voice Mode button.
HostOpen ==
  /\ alive /\ flush = "idle" /\ ~isOpen
  /\ nStarts < MaxStarts
  /\ isOpen' = TRUE
  /\ endedSince' = FALSE
  /\ evts' = <<>>
  /\ UNCHANGED <<apiKey, pcm, hasDestroy, alive, effOpen, flush, isMountedRef, refs, bufs,
                 nStarts, pc, objs, outNow, thenQ, decoding, nFrames, nMsgs,
                 muted, onCloseCount, closeReq, stopCount, tornUpTo, fault,
                 remoteClosed, sched>>

\* The host lowers the isOpen prop (VoiceModeProps 8).
HostClose ==
  /\ alive /\ flush = "idle" /\ isOpen
  /\ isOpen' = FALSE
  /\ evts' = <<>>
  /\ UNCHANGED <<apiKey, pcm, hasDestroy, alive, effOpen, flush, isMountedRef, refs, bufs,
                 nStarts, pc, objs, outNow, thenQ, decoding, nFrames, nMsgs,
                 muted, hist>>

\* What a destroy function that was never returned leaves alone: all that
\* cleanup and line 96 assign.
noDestroy ==
  /\ evts' = <<>>
  /\ UNCHANGED <<isMountedRef, refs, bufs, objs, closeReq, stopCount, sched,
                 tornUpTo>>

\* VoiceMode.tsx 95-98: the previous effect's destroy function, run when
\* isOpen changed since the last commit.  An effect body that was left by
\* an exception before 95 returned none, and nothing runs for it.
EffectDestroy ==
  /\ alive /\ flush = "idle" /\ isOpen # effOpen
  /\ IF hasDestroy
       THEN isMountedRef' = FALSE /\ cleanup /\ evts' = cleanupEvts
       ELSE noDestroy
  /\ hasDestroy' = FALSE
  /\ flush' = "create"
  /\ UNCHANGED <<alive, isOpen, effOpen>>
  /\ cleanupFrame

\* VoiceMode.tsx 95-98 on unmount: destroy with no create after it.
Unmount ==
  /\ alive /\ flush = "idle"
  /\ IF hasDestroy
       THEN isMountedRef' = FALSE /\ cleanup /\ evts' = cleanupEvts
       ELSE noDestroy
  /\ hasDestroy' = FALSE
  /\ alive' = FALSE
  /\ UNCHANGED <<isOpen, effOpen, flush>>
  /\ cleanupFrame

\* VoiceMode.tsx 86-98, isOpen false: the effect body calls cleanup and
\* returns the destroy function.
EffectCreateClosed ==
  /\ flush = "create" /\ ~isOpen
  /\ isMountedRef' = TRUE
  /\ cleanup
  /\ evts' = cleanupEvts
  /\ hasDestroy' = TRUE
  /\ flush' = "idle"
  /\ effOpen' = isOpen
  /\ UNCHANGED <<alive, isOpen>>
  /\ cleanupFrame

\* ------------------------------------------- cleanup, a release fails
\* The release calls of cleanup (VoiceMode.tsx 43, 52, 56, 62, 69, 75) in
\* the order of the code.
releaseSteps ==
  <<"session.close", "processor.disconnect", "source.disconnect",
    "track.stop", "inputCtx.close", "outputCtx.close">>

stepNo(s) == CHOOSE n \in 1..Len(releaseSteps) : releaseSteps[n] = s

\* How the failure of release call s reaches cleanup.  disconnect() and
\* stop() return nothing (52, 56, 62): their failure is an exception, and
\* no try encloses them.  session.close() is inside the try of 42-46.
\* AudioContext.close() returns a promise nobody awaits (69, 75): its
\* failure is a rejection.
throws(s) ==
  s \in {"processor.disconnect", "source.disconnect", "track.stop"}

\* Cleanup gets past release call n when call s fails.
passes(n, s) == ~throws(s) \/ n < stepNo(s)
\* Release call n takes effect when call s fails.
releases(n, s) == passes(n, s) /\ n # stepNo(s)

\* VoiceMode.tsx 39-84 when release call s fails.
cleanupFails(s) ==
  \* 1. close the session (41-48)
  /\ tr' = IF activeSessionRef # NULL /\ tr[activeSessionRef] = "open"
              /\ releases(1, s)
             THEN [tr EXCEPT ![activeSessionRef] = "closing"] ELSE tr
  /\ closeReq' = IF activeSessionRef # NULL
                   THEN [closeReq EXCEPT ![activeSessionRef] = @ + 1]
                   ELSE closeReq
  /\ activeSessionRef' = NULL
  \* 2. stop audio processing (51-58)
  /\ proc' = IF processorRef # NULL /\ releases(2, s)
               THEN [proc EXCEPT ![processorRef] = "disconnected"] ELSE proc
  /\ processorRef' = IF passes(2, s) THEN NULL ELSE processorRef
  /\ sourceRef' = IF passes(3, s) THEN NULL ELSE sourceRef
  \* 3. stop the microphone stream (61-64)
  /\ stream' = IF streamRef # NULL /\ releases(4, s)
                 THEN [stream EXCEPT ![streamRef] = "stopped"] ELSE stream
  /\ stopCount' = IF streamRef # NULL /\ releases(4, s)
                    THEN [stopCount EXCEPT ![streamRef] = @ + 1] ELSE stopCount
  /\ streamRef' = IF passes(4, s) THEN NULL ELSE streamRef
  \* 4. close the audio contexts (67-78)
  /\ inCtx' = IF audioContextRef # NULL /\ releases(5, s)
                THEN [inCtx EXCEPT ![audioContextRef] = "closed"] ELSE inCtx
  /\ audioContextRef' = IF passes(5, s) THEN NULL ELSE audioContextRef
  /\ outCtx' = IF outputContextRef # NULL /\ releases(6, s)
                 THEN [outCtx EXCEPT ![outputContextRef] = "closed"] ELSE outCtx
  /\ outputContextRef' = IF passes(6, s) THEN NULL ELSE outputContextRef
  \* 5. reset the buffers (81-83)
  /\ userTranscriptBuffer' = IF throws(s) THEN userTranscriptBuffer ELSE <<>>
  /\ modelTranscriptBuffer' = IF throws(s) THEN modelTranscriptBuffer ELSE <<>>
  /\ nextStartTimeRef' = IF throws(s) THEN nextStartTimeRef ELSE 0
  /\ sched' = IF throws(s) THEN sched ELSE <<>>
  /\ tornUpTo' = nStarts

\* Release call s is made by cleanup in this state.
called(s) == \E n \in 1..Len(cleanupEvts) : cleanupEvts[n].k = s

\* The effects of cleanup when release call s fails: the calls up to the
\* failing one, then the log of 45 and the rest, or the exception leaving
\* cleanup, or the rest and the rejection nobody handles.
cleanupFailsEvts(s) ==
  LET at == CHOOSE n \in 1..Len(cleanupEvts) : cleanupEvts[n].k = s
      upTo == SubSeq(cleanupEvts, 1, at)
      rest == SubSeq(cleanupEvts, at + 1, Len(cleanupEvts))
  IN  IF throws(s)
        THEN upTo \o <<Evt("throw", NULL, FALSE, FALSE, s)>>
        ELSE IF s = "session.close"
          THEN upTo \o <<Evt("console.error", NULL, FALSE, FALSE, s)>> \o rest
          ELSE upTo \o rest
               \o <<Evt("unhandledrejection", NULL, FALSE, FALSE, s)>>

\* VoiceMode.tsx 95-98: the destroy function, release call s failing.
EffectDestroyFails(s) ==
  /\ alive /\ flush = "idle" /\ isOpen # effOpen
  /\ hasDestroy /\ called(s)
  /\ isMountedRef' = FALSE
  /\ cleanupFails(s)
  /\ evts' = cleanupFailsEvts(s)
  /\ hasDestroy' = FALSE
  /\ flush' = "create"
  /\ UNCHANGED <<alive, isOpen, effOpen>>
  /\ cleanupFrame

\* VoiceMode.tsx 95-98 on unmount, release call s failing.
UnmountFails(s) ==
  /\ alive /\ flush = "idle"
  /\ hasDestroy /\ called(s)
  /\ isMountedRef' = FALSE
  /\ cleanupFails(s)
  /\ evts' = cleanupFailsEvts(s)
  /\ hasDestroy' = FALSE
  /\ alive' = FALSE
  /\ UNCHANGED <<isOpen, effOpen, flush>>
  /\ cleanupFrame

\* VoiceMode.tsx 86-98, isOpen false, release call s failing.  An exception
\* leaves the effect body at 92, before it returns the destroy function.
EffectCreateClosedFails(s) ==
  /\ flush = "create" /\ ~isOpen
  /\ called(s)
  /\ isMountedRef' = TRUE
  /\ cleanupFails(s)
  /\ evts' = cleanupFailsEvts(s)
  /\ hasDestroy' = ~throws(s)
  /\ flush' = "idle"
  /\ effOpen' = isOpen
  /\ UNCHANGED <<alive, isOpen>>
  /\ cleanupFrame

\* -------------------------------------------------- startLiveSession
\* VoiceMode.tsx 107, 269, 292: `if (isMountedRef.current) onClose()` made
\* by a continuation of invocation i; App.tsx 395 is the host's onClose.
callOnClose(i, mounted) ==
  /\ onCloseCount' = IF mounted THEN [onCloseCount EXCEPT ![i] = @ + 1]
                                ELSE onCloseCount
  /\ isOpen' = IF mounted THEN FALSE ELSE isOpen

\* from: the continuation that makes the call.
onCloseEvts(i, mounted, from) ==
  IF mounted THEN <<EvtNow("onClose", i, from)>> ELSE <<>>

\* VoiceMode.tsx 290-293: the catch of startLiveSession.
catch(i) ==
  /\ pc' = [pc EXCEPT ![i] = "failed"]
  /\ endedSince' = TRUE
  /\ callOnClose(i, isMountedRef)
  /\ evts' = onCloseEvts(i, isMountedRef, "catch")

\* VoiceMode.tsx 86-90 and 102-125, isOpen true: the effect body starts
\* invocation i = nStarts + 1 of startLiveSession, which runs to its first
\* await.  si, so: the new input / output context starts suspended.
EffectCreateOpen(si, so) ==
  /\ flush = "create" /\ isOpen
  /\ nStarts < MaxStarts
  /\ isMountedRef' = TRUE
  /\ flush' = "idle"
  /\ effOpen' = isOpen
  /\ nStarts' = nStarts + 1
  /\ LET i == nStarts + 1 IN
     IF ~apiKey
       THEN \* 105-109: no API key
            /\ pc' = [pc EXCEPT ![i] = "returned"]
            /\ callOnClose(i, TRUE)
            /\ evts' = onCloseEvts(i, TRUE, "apiKey")
            /\ UNCHANGED <<inCtx, outCtx, audioContextRef, outputContextRef>>
       ELSE /\ inCtx' = [inCtx EXCEPT ![i] = IF si THEN "suspended" ELSE "running"]
            /\ outCtx' = [outCtx EXCEPT ![i] = IF so THEN "suspended" ELSE "running"]
            /\ pc' = [pc EXCEPT ![i] = IF si THEN "resumeIn"
                                      ELSE IF so THEN "resumeOut"
                                      ELSE "getUserMedia"]
            /\ audioContextRef' = IF si \/ so THEN audioContextRef ELSE i
            /\ outputContextRef' = IF si \/ so THEN outputContextRef ELSE i
            /\ evts' = <<>>
            /\ UNCHANGED <<isOpen, onCloseCount>>
  /\ hasDestroy' = TRUE
  /\ UNCHANGED <<apiKey, pcm, alive, streamRef, processorRef, sourceRef,
                 activeSessionRef, bufs, outNow, stream, proc, tr, thenQ,
                 decoding, nFrames, nMsgs, muted, closeReq, stopCount,
                 tornUpTo, fault, remoteClosed, sched, endedSince>>

\* VoiceMode.tsx 118: `await inputCtx.resume()` settles.
ResumeIn(i) ==
  /\ flush = "idle" /\ pc[i] = "resumeIn"
  /\ \/ /\ inCtx' = [inCtx EXCEPT ![i] = "running"]
        /\ pc' = [pc EXCEPT ![i] = IF outCtx[i] = "suspended"
                                  THEN "resumeOut" ELSE "getUserMedia"]
        /\ audioContextRef' = IF outCtx[i] = "suspended"
                                THEN audioContextRef ELSE i
        /\ outputContextRef' = IF outCtx[i] = "suspended"
                                 THEN outputContextRef ELSE i
        /\ evts' = <<>>
        /\ UNCHANGED <<isOpen, onCloseCount, endedSince>>
     \/ /\ catch(i)
        /\ UNCHANGED <<inCtx, audioContextRef, outputContextRef>>
  /\ UNCHANGED <<apiKey, pcm, hasDestroy, alive, effOpen, flush, isMountedRef, streamRef,
                 processorRef, sourceRef, activeSessionRef, bufs, nStarts,
                 outCtx, outNow, stream, proc, tr, thenQ, decoding, nFrames,
                 nMsgs, muted, closeReq, stopCount, tornUpTo, fault,
                 remoteClosed, sched>>

\* VoiceMode.tsx 119-122: `await outputCtx.resume()` settles; on success
\* both contexts are stored in their refs.
ResumeOut(i) ==
  /\ flush = "idle" /\ pc[i] = "resumeOut"
  /\ \/ /\ outCtx' = [outCtx EXCEPT ![i] = "running"]
        /\ pc' = [pc EXCEPT ![i] = "getUserMedia"]
        /\ audioContextRef' = i
        /\ outputContextRef' = i
        /\ evts' = <<>>
        /\ UNCHANGED <<isOpen, onCloseCount, endedSince>>
     \/ /\ catch(i)
        /\ UNCHANGED <<outCtx, audioContextRef, outputContextRef>>
  /\ UNCHANGED <<apiKey, pcm, hasDestroy, alive, effOpen, flush, isMountedRef, streamRef,
                 processorRef, sourceRef, activeSessionRef, bufs, nStarts,
                 inCtx, outNow, stream, proc, tr, thenQ, decoding, nFrames,
                 nMsgs, muted, closeReq, stopCount, tornUpTo, fault,
                 remoteClosed, sched>>

\* VoiceMode.tsx 125-132: getUserMedia settles; on success the stream is
\* stored and ai.live.connect is called; on failure (no stream: "denied")
\* the catch runs.
GetUserMedia(i) ==
  /\ flush = "idle" /\ pc[i] = "getUserMedia"
  /\ \/ /\ stream' = [stream EXCEPT ![i] = "live"]
        /\ streamRef' = i
        /\ tr' = [tr EXCEPT ![i] = "connecting"]
        /\ pc' = [pc EXCEPT ![i] = "connect"]
        /\ evts' = <<EvtNow("streamRef", i, 0), EvtNow("connect", i, 0)>>
        /\ UNCHANGED <<isOpen, onCloseCount, endedSince>>
     \/ /\ catch(i)
        /\ stream' = [stream EXCEPT ![i] = "denied"]
        /\ UNCHANGED <<streamRef, tr>>
  /\ UNCHANGED <<apiKey, pcm, hasDestroy, alive, effOpen, flush, isMountedRef,
                 audioContextRef, outputContextRef, processorRef, sourceRef,
                 activeSessionRef, bufs, nStarts, inCtx, outCtx, outNow, proc,
                 thenQ, decoding, nFrames, nMsgs, muted, closeReq, stopCount,
                 tornUpTo, fault, remoteClosed, sched>>

\* The call at which the try of onopen (151-191) is left: none ("ok"),
\* createMediaStreamSource (152), createScriptProcessor (155), or one of
\* the two connect calls (187, 188).
OpenOutcomes ==
  {"ok", "createMediaStreamSource", "createScriptProcessor", "connect"}

\* VoiceMode.tsx 145-192: the onopen callback.  The refs are stored as the
\* nodes are created (153, 156), so a call that throws leaves behind what
\* was stored before it; the catch of 189-191 only logs.
OnOpen(i, at) ==
  /\ flush = "idle" /\ tr[i] = "connecting"
  /\ tr' = [tr EXCEPT ![i] = "opened"]
  /\ IF isMountedRef /\ streamRef # NULL
       THEN /\ sourceRef' = IF at = "createMediaStreamSource"
                              THEN sourceRef ELSE i
            /\ processorRef' = IF at \in {"ok", "connect"}
                                 THEN i ELSE processorRef
            /\ proc' = IF at = "ok"
                         THEN [proc EXCEPT ![i] = "connected"] ELSE proc
            /\ evts' = IF at = "ok"
                         THEN <<EvtNow("capture", i, 0)>> ELSE <<>>
       ELSE /\ evts' = <<>>
            /\ UNCHANGED <<sourceRef, processorRef, proc>>
  /\ UNCHANGED <<apiKey, pcm, hasDestroy, alive, isOpen, effOpen, flush, isMountedRef,
                 audioContextRef, outputContextRef, streamRef,
                 activeSessionRef, bufs, nStarts, pc, inCtx, outCtx, outNow,
                 stream, thenQ, decoding, nFrames, nMsgs, muted, hist>>

\* A then callback that never reaches the session.
thenEvtsNoSend(q, i, open) == <<>>

\* The effects of the sessionPromise.then callbacks queued on invocation i
\* (VoiceMode.tsx 171-184, 248-258), run in the order they were queued once
\* the promise is fulfilled.  open: session i is Open when they run.
RECURSIVE thenEvts(_, _, _)
thenEvts(q, i, open) ==
  IF q = <<>> THEN <<>>
  ELSE (IF isMountedRef
          THEN <<Evt(q[1].k, i, open, i <= tornUpTo, q[1].a)>> ELSE <<>>)
       \o thenEvts(Tail(q), i, open)

\* VoiceMode.tsx 281-288: live.connect fulfils.  The `await sessionPromise`
\* of startLiveSession was registered before any then callback, so the
\* store (or the close) comes first, then the queued callbacks.
ConnectResolve(i) ==
  /\ flush = "idle" /\ tr[i] = "opened" /\ pc[i] = "connect"
  /\ pc' = [pc EXCEPT ![i] = "done"]
  /\ IF isMountedRef
       THEN /\ activeSessionRef' = i
            /\ tr' = [tr EXCEPT ![i] = "open"]
            /\ evts' = <<EvtNow("activeSessionRef", i, 0)>>
                        \o thenEvts(thenQ[i], i, i > tornUpTo)
            /\ UNCHANGED closeReq
       ELSE /\ tr' = [tr EXCEPT ![i] = "closing"]
            /\ closeReq' = [closeReq EXCEPT ![i] = @ + 1]
            /\ evts' = <<EvtNow("session.close", i, 0)>>
            /\ UNCHANGED activeSessionRef
  /\ thenQ' = [thenQ EXCEPT ![i] = <<>>]
  /\ UNCHANGED <<apiKey, pcm, hasDestroy, alive, isOpen, effOpen, flush, isMountedRef,
                 audioContextRef, outputContextRef, streamRef, processorRef,
                 sourceRef, bufs, nStarts, inCtx, outCtx, outNow, stream,
                 proc, decoding, nFrames, nMsgs, muted, onCloseCount,
                 stopCount, tornUpTo, fault, remoteClosed, sched,
                 endedSince>>

\* VoiceMode.tsx 282, 290-293: live.connect rejects (the handshake fails);
\* the then callbacks of a rejected promise never run.
ConnectReject(i) ==
  /\ flush = "idle" /\ tr[i] = "connecting" /\ pc[i] = "connect"
  /\ tr' = [tr EXCEPT ![i] = "failed"]
  /\ catch(i)
  /\ UNCHANGED <<apiKey, pcm, hasDestroy, alive, effOpen, flush, isMountedRef, refs, bufs,
                 nStarts, inCtx, outCtx, outNow, stream, proc, thenQ,
                 decoding, nFrames, nMsgs, muted, closeReq, stopCount,
                 tornUpTo, fault, remoteClosed, sched>>

\* VoiceMode.tsx 266-271: the onclose callback.
onclose(i) ==
  /\ tr' = [tr EXCEPT ![i] = "closed"]
  /\ callOnClose(i, isMountedRef)
  /\ evts' = onCloseEvts(i, isMountedRef, "onclose")

\* The remote end closes an open session: the transport calls onclose.
RemoteClose(i) ==
  /\ flush = "idle" /\ tr[i] = "open"
  /\ onclose(i)
  /\ remoteClosed' = [remoteClosed EXCEPT ![i] = SessOpen(i)]
  /\ endedSince' = TRUE
  /\ UNCHANGED <<apiKey, pcm, hasDestroy, alive, effOpen, flush, isMountedRef, refs, bufs,
                 nStarts, pc, inCtx, outCtx, outNow, stream, proc, thenQ,
                 decoding, nFrames, nMsgs, muted, closeReq, stopCount,
                 tornUpTo, fault, sched>>

\* A session closed by session.close() (VoiceMode.tsx 43, 287) finishes
\* closing: the transport calls onclose.
CloseDone(i) ==
  /\ flush = "idle" /\ tr[i] = "closing"
  /\ onclose(i)
  /\ UNCHANGED <<apiKey, pcm, hasDestroy, alive, effOpen, flush, isMountedRef, refs, bufs,
                 nStarts, pc, inCtx, outCtx, outNow, stream, proc, thenQ,
                 decoding, nFrames, nMsgs, muted, closeReq, stopCount,
                 tornUpTo, fault, remoteClosed, sched, endedSince>>

\* VoiceMode.tsx 272-277: the onerror callback only logs.
OnError(i) ==
  /\ flush = "idle" /\ tr[i] = "open" /\ ~fault[i]
  /\ fault' = [fault EXCEPT ![i] = SessOpen(i)]
  /\ endedSince' = TRUE
  /\ evts' = <<EvtNow("onerror", i, 0)>>
  /\ UNCHANGED <<apiKey, pcm, hasDestroy, alive, isOpen, effOpen, flush, isMountedRef, refs,
                 bufs, nStarts, pc, objs, outNow, thenQ, decoding, nFrames,
                 nMsgs, muted, onCloseCount, closeReq, stopCount, tornUpTo,
                 remoteClosed, sched>>

\* VoiceMode.tsx 158-185: onaudioprocess delivers frame f = nFrames + 1 to
\* the processor of invocation i.  A then callback on a fulfilled promise
\* runs before any other event; on a pending one it is queued.  The first
\* effect recorded is the delivery itself; the frame remembers whether its
\* session was Open when it was captured.
OnAudioProcess(i) ==
  /\ flush = "idle" /\ proc[i] = "connected" /\ inCtx[i] = "running"
  /\ nFrames < MaxFrames
  /\ nFrames' = nFrames + 1
  /\ LET got == EvtNow("audioprocess", i,
                       [f |-> nFrames + 1, muted |-> muted])
         f == [k |-> "send",
               a |-> [f |-> nFrames + 1, muted |-> muted,
                      open |-> SessOpen(i)]] IN
     IF ~isMountedRef \/ pc[i] = "failed"
       THEN evts' = <<got>> /\ UNCHANGED thenQ
       ELSE IF pc[i] = "connect"
         THEN evts' = <<got>> /\ thenQ' = [thenQ EXCEPT ![i] = Append(@, f)]
         ELSE /\ evts' = <<got>> \o thenEvts(<<f>>, i, SessOpen(i))
              /\ UNCHANGED thenQ
  /\ UNCHANGED <<apiKey, pcm, hasDestroy, alive, isOpen, effOpen, flush, isMountedRef, refs,
                 bufs, nStarts, pc, objs, outNow, decoding, nMsgs, muted,
                 hist>>

\* ------------------------------------------------------------ onmessage
\* geminiService.ts 18-41: the product descriptors of a displayProducts
\* call.  "p1" and "p2" have the four required fields; "noBrand" lacks one.
Products == {"p1", "p2"}
ProductLists == {<<>>, <<"p1", "p2">>, <<"p1", "noBrand">>}

\* VoiceMode.tsx 242-246: a function call of a toolCall message.  hasList:
\* fc.args has a products property; throws: the host's onProductsFound
\* throws when called for it (taken for well-formed lists only).
FunctionCalls ==
  {c \in [name : {"displayProducts", "other"}, hasList : BOOLEAN,
          products : ProductLists, throws : BOOLEAN] :
     /\ ~c.hasList => c.products = <<>>
     /\ c.throws => c.name = "displayProducts" /\ c.products = <<"p1", "p2">>
     /\ c.name = "other" => c.products = <<"p1", "p2">>}

\* The toolCall.functionCalls of one message: up to MaxCalls calls.
CallLists ==
  UNION {[1..l -> FunctionCalls] : l \in 0..MaxCalls}

\* The shapes of LiveServerMessage the transport delivers: inT / outT: the
\* message carries an input / output transcription delta; turn:
\* turnComplete; audio: the duration of the inline audio payload, 0 for
\* none; tool: the function calls of its toolCall, <<>> for none.
MsgShapes ==
  [inT : BOOLEAN, outT : BOOLEAN, turn : BOOLEAN, audio : 0..MaxDur,
   tool : CallLists]

\* VoiceMode.tsx 200-207: a delta is appended to its buffer.  The delta of
\* message n is the one-token text <<n>>.
appendDelta(buf, has, n) == IF has THEN Append(buf, n) ELSE buf

\* VoiceMode.tsx 209-218: turnComplete empties a non-empty buffer.
afterTurn(buf, turn) == IF turn /\ buf # <<>> THEN <<>> ELSE buf

\* App.tsx 393-398: the props the host passes to VoiceMode.  Of the
\* callbacks VoiceModeProps (7-14) declares it passes onClose and
\* onProductsFound; onUserTranscript and onModelTranscript are undefined.
HostPasses == {"isOpen", "onClose", "location", "onProductsFound"}

\* Calling a prop the host did not pass raises a TypeError.
callable(prop) == prop \in HostPasses

\* The calls of 211 and 215 as they would be without the tests of 210 and
\* 214: made on every turnComplete, also for an empty buffer.
transcriptThrowsAtUnguarded(m, n) ==
  IF m.inT /\ ~callable("onUserTranscript") THEN 1
  ELSE IF m.outT /\ ~callable("onModelTranscript") THEN 2
  ELSE IF m.turn /\ ~callable("onUserTranscript") THEN 3
  ELSE IF m.turn /\ ~callable("onModelTranscript") THEN 4
  ELSE 0

\* VoiceMode.tsx 199-218: the four transcript callback calls of message n in
\* the order of the code (202, 206, 211, 215), and the one at which the
\* handler is left for the catch of 262; 0 if it is left at none.  A call
\* of 211 / 215 is made for a non-empty buffer only.
transcriptThrowsAt(m, n) ==
  LET ub == appendDelta(userTranscriptBuffer, m.inT, n)
      mb == appendDelta(modelTranscriptBuffer, m.outT, n)
  IN IF m.inT /\ ~callable("onUserTranscript") THEN 1
     ELSE IF m.outT /\ ~callable("onModelTranscript") THEN 2
     ELSE IF m.turn /\ ub # <<>> /\ ~callable("onUserTranscript") THEN 3
     ELSE IF m.turn /\ mb # <<>> /\ ~callable("onModelTranscript") THEN 4
     ELSE 0

\* Call k of the four returned.
transcriptReturned(m, n, k) ==
  transcriptThrowsAt(m, n) = 0 \/ k < transcriptThrowsAt(m, n)

\* VoiceMode.tsx 201, 212: the user buffer after the transcript part: the
\* delta is appended before the call of 202; the reset of 212 follows the
\* call of 211.
userBufferAfter(m, n) ==
  LET ub == appendDelta(userTranscriptBuffer, m.inT, n)
  IN IF transcriptReturned(m, n, 3) THEN afterTurn(ub, m.turn) ELSE ub

\* VoiceMode.tsx 205, 216: the model buffer after the transcript part: the
\* append of 205 follows the call of 202, the reset of 216 the call of 215.
modelBufferAfter(m, n) ==
  LET mb == appendDelta(modelTranscriptBuffer, m.outT, n)
  IN IF ~transcriptReturned(m, n, 1) THEN modelTranscriptBuffer
     ELSE IF transcriptReturned(m, n, 4) THEN afterTurn(mb, m.turn)
     ELSE mb

\* VoiceMode.tsx 200-218: the transcript callbacks of one message that were
\* called and returned, in order.
transcriptEvts(i, m, n) ==
  LET ub == appendDelta(userTranscriptBuffer, m.inT, n)
      mb == appendDelta(modelTranscriptBuffer, m.outT, n)
  IN (IF m.inT /\ transcriptReturned(m, n, 1)
        THEN <<EvtNow("onUserTranscript", i, [text |-> ub, final |-> FALSE])>>
        ELSE <<>>)
     \o (IF m.outT /\ transcriptReturned(m, n, 2)
          THEN <<EvtNow("onModelTranscript", i, [text |-> mb, final |-> FALSE])>>
          ELSE <<>>)
     \o (IF m.turn /\ ub # <<>> /\ transcriptReturned(m, n, 3)
          THEN <<EvtNow("onUserTranscript", i, [text |-> ub, final |-> TRUE])>>
          ELSE <<>>)
     \o (IF m.turn /\ mb # <<>> /\ transcriptReturned(m, n, 4)
          THEN <<EvtNow("onModelTranscript", i, [text |-> mb, final |-> TRUE])>>
          ELSE <<>>)

\* VoiceMode.tsx 243-259, 262: the position of the first call of the loop,
\* from k on, at which the host's callback throws; the catch ends the loop
\* there.  Len(calls) + 1 if none throws.
RECURSIVE firstThrow(_, _)
firstThrow(calls, k) ==
  IF k > Len(calls) THEN k
  ELSE IF calls[k].name = "displayProducts" /\ calls[k].throws THEN k
  ELSE firstThrow(calls, k + 1)

\* VoiceMode.tsx 241-261: the tool calls of message n, handled for session
\* i.  Call k of the message has id <<n, k>>.  Every displayProducts call up
\* to the first throw has onProductsFound called with fc.args.products as
\* it came; each call whose callback returned registers a then callback on
\* the fulfilled sessionPromise, and these run, in order, when the loop has
\* ended; a throw is logged by the catch (262-264) before they run.
toolEvts(i, n, calls) ==
  LET stop == firstThrow(calls, 1)
      fcs == [k \in 1..Len(calls) |-> [id |-> <<n, k>>, c |-> calls[k]]]
      reached == SelectSeq(fcs, LAMBDA x :
                   x.c.name = "displayProducts" /\ x.id[2] <= stop)
      returned == SelectSeq(reached, LAMBDA x : x.id[2] < stop)
      found == [k \in 1..Len(reached) |->
                 EvtNow("onProductsFound", i,
                        [id |-> reached[k].id,
                         hasList |-> reached[k].c.hasList,
                         products |-> reached[k].c.products,
                         threw |-> reached[k].c.throws])]
      q == [k \in 1..Len(returned) |->
             [k |-> "toolResponse", a |-> [id |-> returned[k].id]]]
      logged == IF stop <= Len(calls)
                  THEN <<EvtNow("console.error", i, n)>> ELSE <<>>
  IN found \o logged \o thenEvts(q, i, SessOpen(i))

\* VoiceMode.tsx 193-265: onmessage of session i receives message number
\* n = nMsgs + 1 and runs to its first await (decodeAudioData), if any; the
\* tool calls of a message whose audio is being decoded wait for the
\* decode.  A transcript callback that throws ends the handler in the catch
\* of 262-264, before the audio and the tool calls of the message.  The
\* first effect recorded is the receipt itself.
OnMessage(i, m) ==
  /\ flush = "idle" /\ tr[i] \in {"open", "closing"}
  /\ nMsgs < MaxMsgs
  /\ nMsgs' = nMsgs + 1
  /\ LET n == nMsgs + 1
         threw == transcriptThrowsAt(m, n) # 0
         awaits == ~threw /\ m.audio > 0 /\ outputContextRef # NULL IN
     IF ~isMountedRef
       THEN /\ evts' = <<>>
            /\ UNCHANGED <<userTranscriptBuffer, modelTranscriptBuffer,
                           decoding>>
       ELSE /\ userTranscriptBuffer' = userBufferAfter(m, n)
            /\ modelTranscriptBuffer' = modelBufferAfter(m, n)
            /\ evts' = <<EvtNow("onmessage", i, [n |-> n, m |-> m])>>
                        \o transcriptEvts(i, m, n)
                        \o (IF threw THEN <<EvtNow("console.error", i, n)>>
                            ELSE IF awaits THEN <<>>
                            ELSE toolEvts(i, n, m.tool))
            /\ decoding' = IF awaits
                             THEN decoding \cup
                                  {[n |-> n, i |-> i, dur |-> m.audio,
                                    calls |-> m.tool]}
                             ELSE decoding
  /\ UNCHANGED <<apiKey, pcm, hasDestroy, alive, isOpen, effOpen, flush, isMountedRef, refs,
                 nextStartTimeRef, nStarts, pc, objs, outNow, thenQ, nFrames,
                 muted, hist>>

\* services/audioUtils decodeAudioData (imported at VoiceMode.tsx 3, awaited
\* at 224): an asynchronous decode.  Any pending decode may settle next.
decodeSettles(d) == d \in decoding

\* The start time without the watermark: every buffer starts at once.
startTimeNow(now, watermark) == now

\* VoiceMode.tsx 235: the start time of the next playback buffer.
startTime(now, watermark) == Max(now, watermark)

\* A message catch that treats the error as fatal: it calls onClose, as the
\* catch of startLiveSession does.
DecodeDoneFatal(d) ==
  /\ flush = "idle" /\ decodeSettles(d)
  /\ decoding' = decoding \ {d}
  /\ \E ok \in BOOLEAN :
       IF ok /\ outputContextRef # NULL
         THEN LET start == startTime(outNow[outputContextRef], nextStartTimeRef)
                  b == [n |-> d.n, start |-> start, dur |-> d.dur,
                        ctx |-> outputContextRef]
              IN /\ nextStartTimeRef' = start + d.dur
                 /\ evts' = <<EvtNow("src.start", d.i, b)>>
                             \o toolEvts(d.i, d.n, d.calls)
                 /\ sched' = Append(sched, b)
                 /\ UNCHANGED <<isOpen, onCloseCount>>
         ELSE /\ callOnClose(d.i, isMountedRef)
              /\ evts' = <<EvtNow("console.error", d.i, d.n)>>
                          \o onCloseEvts(d.i, isMountedRef, "catch")
              /\ UNCHANGED <<nextStartTimeRef, sched>>
  /\ UNCHANGED <<apiKey, pcm, hasDestroy, alive, effOpen, flush, isMountedRef, refs,
                 userTranscriptBuffer, modelTranscriptBuffer, nStarts, pc,
                 objs, outNow, thenQ, nFrames, nMsgs, muted, closeReq,
                 stopCount, tornUpTo, fault, remoteClosed, endedSince>>

\* VoiceMode.tsx 224-264: decodeAudioData settles for the pending handler
\* d.  A rejection, or a null outputContextRef.current (a TypeError at
\* 229), is caught and logged at 262-264 and ends the handler: the payload
\* and the tool calls behind it are dropped.  Otherwise the buffer is scheduled on the
\* context the ref holds now and the handler goes on to the tool calls.
DecodeDone(d) ==
  /\ flush = "idle" /\ decodeSettles(d)
  /\ decoding' = decoding \ {d}
  /\ \E ok \in BOOLEAN :
       IF ok /\ outputContextRef # NULL
         THEN LET start == startTime(outNow[outputContextRef], nextStartTimeRef)
                  b == [n |-> d.n, start |-> start, dur |-> d.dur,
                        ctx |-> outputContextRef]
              IN /\ nextStartTimeRef' = start + d.dur
                 /\ evts' = <<EvtNow("src.start", d.i, b)>>
                             \o toolEvts(d.i, d.n, d.calls)
                 /\ sched' = Append(sched, b)
         ELSE /\ evts' = <<EvtNow("console.error", d.i, d.n)>>
              /\ UNCHANGED <<nextStartTimeRef, sched>>
  /\ UNCHANGED <<apiKey, pcm, hasDestroy, alive, isOpen, effOpen, flush, isMountedRef, refs,
                 userTranscriptBuffer, modelTranscriptBuffer, nStarts, pc,
                 objs, outNow, thenQ, nFrames, nMsgs, muted, onCloseCount,
                 closeReq, stopCount, tornUpTo, fault, remoteClosed,
                 endedSince>>

\* The clock of a running output context advances (AudioContext.currentTime,
\* read at VoiceMode.tsx 233).
Tick(i) ==
  /\ flush = "idle" /\ outCtx[i] = "running" /\ outNow[i] < MaxClock
  /\ outNow' = [outNow EXCEPT ![i] = @ + 1]
  /\ evts' = <<>>
  /\ UNCHANGED <<apiKey, pcm, hasDestroy, alive, isOpen, effOpen, flush, isMountedRef, refs,
                 bufs, nStarts, pc, objs, thenQ, decoding, nFrames, nMsgs,
                 muted, hist>>

\* Spec 4.3, 6: setMuted(bool).  VoiceModeProps (7-14) has no such prop and
\* no code reads the request.
SetMuted ==
  /\ alive /\ flush = "idle"
  /\ muted' = ~muted
  /\ evts' = <<>>
  /\ UNCHANGED <<apiKey, pcm, hasDestroy, alive, isOpen, effOpen, flush, isMountedRef, refs,
                 bufs, nStarts, pc, objs, outNow, thenQ, decoding, nFrames,
                 nMsgs, hist>>

\* ---------------------------------------------------- outbound encoding
\* The integer part of a / b, rounded toward zero (b > 0).
trunc(a, b) == IF a >= 0 THEN a \div b ELSE -((-a) \div b)

\* The conversion an Int16Array applies to a stored integer: modulo 2^16,
\* read as two's complement.
ToInt16(v) ==
  LET m == v % 65536 IN IF m >= 32768 THEN m - 65536 ELSE m

\* VoiceMode.tsx 165: `int16[i] = inputData[i] * 32768` for the sample
\* n / SampleDen.  The product is exact and equals n / (SampleDen / 32768);
\* the store drops its fraction and converts.
storeSample(n) == ToInt16(trunc(n, SampleDen \div 32768))

\* Sample values in [-1, 1]: around 0, around 1/2 and -1/2, and up to the
\* two boundaries.
Samples ==
  LET pos == UNION {{o, SampleDen \div 2 - o, SampleDen \div 2 + o,
                     SampleDen - o} : o \in 0..MaxOff}
  IN  pos \cup {-n : n \in pos}

\* Capture buffers of one to MaxSamples samples.
Buffers == UNION {[1..l -> Samples] : l \in 1..MaxSamples}

\* VoiceMode.tsx 164-166: one iteration of the conversion loop.
ConvertSample ==
  /\ Len(int16) < Len(inputData)
  /\ int16' = Append(int16, storeSample(inputData[Len(int16) + 1]))
  /\ UNCHANGED <<apiKey, inputData, hasDestroy, alive, isOpen, effOpen, flush,
                 isMountedRef, refs, bufs, nStarts, pc, objs, outNow, thenQ,
                 decoding, nFrames, nMsgs, muted, evts, hist>>

\* ------------------------------------------------------- specification
\* The host, the effect and startLiveSession up to the open session; onopen
\* either completes or is left before it stored anything.
Life ==
  \/ HostOpen
  \/ HostClose
  \/ Unmount
  \/ EffectDestroy
  \/ EffectCreateClosed
  \/ \E i \in Invs : GetUserMedia(i)
  \/ \E i \in Invs, at \in {"ok", "createMediaStreamSource"} : OnOpen(i, at)
  \/ \E i \in Invs : ConnectResolve(i)
  \/ \E i \in Invs : ConnectReject(i)
  \/ \E i \in Invs : RemoteClose(i)
  \/ \E i \in Invs : CloseDone(i)

\* Messages that carry no audio payload.
TextShapes ==
  {m \in MsgShapes :
     m.audio = 0 /\ m.tool = <<>> /\ ~m.outT /\ (m.inT \/ m.turn)}
\* Messages that carry only an audio payload.
AudioShapes ==
  {m \in MsgShapes :
     m.audio > 0 /\ m.tool = <<>> /\ ~m.inT /\ ~m.outT /\ ~m.turn}

\* onopen left after it stored the source, or the source and the processor.
OnOpenPartial ==
  \E i \in Invs, at \in {"createScriptProcessor", "connect"} : OnOpen(i, at)

Next ==
  \/ Life
  \/ OnOpenPartial
  \/ \E si, so \in BOOLEAN : EffectCreateOpen(si, so)
  \/ \E i \in Invs : ResumeIn(i)
  \/ \E i \in Invs : ResumeOut(i)
  \/ \E i \in Invs : OnError(i)
  \/ \E i \in Invs : OnAudioProcess(i)
  \/ \E i \in Invs, m \in TextShapes : OnMessage(i, m)

Spec == Init /\ [][Next]_vars

\* Playback: audio messages and the output clock; the input context starts
\* running.
NextPlay ==
  \/ Life
  \/ \E so \in BOOLEAN : EffectCreateOpen(FALSE, so)
  \/ \E i \in Invs : ResumeOut(i)
  \/ \E i \in Invs, m \in AudioShapes : OnMessage(i, m)
  \/ \E d \in decoding : DecodeDone(d)
  \/ \E i \in Invs : Tick(i)

SpecPlay == Init /\ [][NextPlay]_vars

\* Capture with a host that toggles mute.
NextMute ==
  \/ Life
  \/ EffectCreateOpen(FALSE, FALSE)
  \/ \E i \in Invs : OnAudioProcess(i)
  \/ SetMuted

SpecMute == Init /\ [][NextMute]_vars

\* Transcripts: messages that carry transcription deltas of either
\* direction, turnComplete, or both, and nothing else.
TranscriptShapes ==
  {m \in MsgShapes :
     m.audio = 0 /\ m.tool = <<>> /\ (m.inT \/ m.outT \/ m.turn)}

NextText ==
  \/ Life
  \/ EffectCreateOpen(FALSE, FALSE)
  \/ \E i \in Invs, m \in TranscriptShapes : OnMessage(i, m)

SpecText == Init /\ [][NextText]_vars

\* A well-formed displayProducts call whose callback returns.
GoodCall ==
  [name |-> "displayProducts", hasList |-> TRUE, products |-> <<"p1", "p2">>,
   throws |-> FALSE]

\* Tool calls: messages that carry a toolCall alone, and messages that
\* carry one well-formed call together with a user delta and turnComplete,
\* an audio payload, or both.
ToolShapes ==
  {m \in MsgShapes :
     /\ m.tool # <<>> /\ ~m.outT /\ m.inT = m.turn /\ m.audio <= 1
     /\ (m.inT \/ m.audio > 0) => m.tool = <<GoodCall>>}

NextTool ==
  \/ Life
  \/ EffectCreateOpen(FALSE, FALSE)
  \/ \E i \in Invs, m \in ToolShapes : OnMessage(i, m)
  \/ \E d \in decoding : DecodeDone(d)

SpecTool == Init /\ [][NextTool]_vars

\* A displayProducts call for which the host's callback throws.
ThrowingCall ==
  [name |-> "displayProducts", hasList |-> TRUE, products |-> <<"p1", "p2">>,
   throws |-> TRUE]

\* Failing messages: a user delta with or without an audio payload (the
\* transcript callback is not callable), an audio payload alone (whose
\* decode may fail), and a toolCall alone whose callback returns or throws.
DropShapes ==
  {m \in MsgShapes :
     /\ ~m.outT /\ ~m.turn /\ m.audio <= 1
     /\ \/ m.inT /\ m.tool = <<>>
        \/ ~m.inT /\ m.audio = 1 /\ m.tool = <<>>
        \/ ~m.inT /\ m.audio = 0 /\ m.tool \in {<<GoodCall>>, <<ThrowingCall>>}}

NextDrop ==
  \/ Life
  \/ EffectCreateOpen(FALSE, FALSE)
  \/ \E i \in Invs, m \in DropShapes : OnMessage(i, m)
  \/ \E d \in decoding : DecodeDone(d)

SpecDrop == Init /\ [][NextDrop]_vars

\* Teardown in which one release call of cleanup may fail.
ReleaseCalls == {releaseSteps[n] : n \in 1..Len(releaseSteps)}

NextTeardown ==
  \/ Life
  \/ OnOpenPartial
  \/ EffectCreateOpen(FALSE, FALSE)
  \/ \E s \in ReleaseCalls : EffectDestroyFails(s)
  \/ \E s \in ReleaseCalls : UnmountFails(s)
  \/ \E s \in ReleaseCalls : EffectCreateClosedFails(s)

SpecTeardown == Init /\ [][NextTeardown]_vars

\* The conversion loop of onaudioprocess over every capture buffer.
InitEncode == Constructed /\ inputData \in Buffers /\ int16 = <<>>

NextEncode == ConvertSample

SpecEncode == InitEncode /\ [][NextEncode]_vars

\* ---------------------------------------------------------------- claims
\* No completion of startLiveSession, no transport close and no then
\* callback is pending.
Settled ==
  /\ \A i \in Invs :
       /\ pc[i] \in {"none", "returned", "failed", "done"}
       /\ tr[i] \in {"none", "failed", "open", "closed"}
       /\ thenQ[i] = <<>>
  /\ decoding = {}

\* The host has nothing left to commit.
HostSettled == flush = "idle" /\ (alive => isOpen = effOpen)

\* The host has closed the component, or unmounted it.
HostClosed == flush = "idle" /\ (~alive \/ (~isOpen /\ ~effOpen))

Held(i) ==
  \/ stream[i] = "live"
  \/ inCtx[i] \in {"suspended", "running"}
  \/ outCtx[i] \in {"suspended", "running"}
  \/ tr[i] = "open"

\* C1: once the host has closed or unmounted the component and every
\* pending completion has run, no microphone stream is un-stopped, no audio
\* context is un-closed and no remote session is un-closed.
C1_NoLeak == HostClosed /\ Settled => \A i \in Invs : ~Held(i)

\* The effects of onopen, onaudioprocess, onmessage, onclose, the then
\* callbacks and the session store: host callbacks, sends, buffer and
\* watermark updates, stored or re-activated resources.
LateEffect(e) ==
  \/ e.k \in {"send", "toolResponse", "onUserTranscript", "onModelTranscript",
              "onProductsFound", "src.start", "capture", "activeSessionRef"}
  \/ e.k = "onClose" /\ e.a = "onclose"

\* C2: a continuation of an invocation whose teardown has started invokes
\* no host callback, sends nothing, mutates no transcript buffer or
\* watermark, and stores or re-activates no resource.
C2_LateContinuationsAreNoOps ==
  \A n \in 1..Len(evts) : evts[n].torn => ~LateEffect(evts[n])

\* C3: sendRealtimeInput is called, and a playback buffer started, only
\* while the session is Open.
C3_TrafficOnlyWhileOpen ==
  \A n \in 1..Len(evts) : evts[n].k \in {"send", "src.start"} => evts[n].open

\* Session i was started and has ended: by teardown or by the remote.
Ended(i) == pc[i] # "none" /\ (i <= tornUpTo \/ remoteClosed[i])

\* C4: every started session that has ended had the host's
\* onClose invoked exactly once.
C4_OnCloseExactlyOnce ==
  Settled /\ HostSettled =>
    \A i \in Invs : Ended(i) => onCloseCount[i] = 1

\* C5: after the effect cleanup and the isOpen = false effect both ran
\* cleanup for a session, the host's onClose was invoked exactly once for
\* it and its remote close was requested at most once.
C5_CloseTwiceNotifiesOnce ==
  alive /\ HostClosed /\ Settled =>
    \A i \in Invs :
      pc[i] # "none" => onCloseCount[i] = 1 /\ closeReq[i] <= 1

\* C6: when live.connect fails after getUserMedia succeeded, the stream's
\* tracks are stopped exactly once and onClose is invoked exactly once.
C6_HandshakeFailureReleasesOnce ==
  Settled /\ HostSettled =>
    \A i \in Invs :
      tr[i] = "failed" => stopCount[i] = 1 /\ onCloseCount[i] = 1

\* C7: after onerror or onclose arrived for an Open session, the closing
\* sequence has run once everything pending has: capture stopped,
\* microphone and contexts released, buffers and watermark reset, and the
\* host notified.
C7_FaultForcesClosing ==
  Settled /\ HostSettled =>
    \A i \in Invs :
      fault[i] \/ remoteClosed[i] =>
        /\ ~Held(i) /\ proc[i] # "connected"
        /\ userTranscriptBuffer = <<>> /\ modelTranscriptBuffer = <<>>
        /\ nextStartTimeRef = 0
        /\ onCloseCount[i] >= 1

\* C8: no frame captured while the host has the session muted is sent.
C8_MutedFramesNotSent ==
  \A n \in 1..Len(evts) : evts[n].k = "send" => ~evts[n].a.muted

\* C9: each buffer starts at max(output clock now, watermark); it starts no
\* earlier than the end of the buffer scheduled before it; and when the
\* watermark is not behind the clock the watermark advances by exactly the
\* buffer's duration.
C9_PlaybackRule ==
  [][Len(sched') = Len(sched) + 1 =>
       LET b == sched'[Len(sched')] IN
         /\ b.start = Max(outNow[b.ctx], nextStartTimeRef)
         /\ nextStartTimeRef' = b.start + b.dur
         /\ sched # <<>> =>
              b.start >= sched[Len(sched)].start + sched[Len(sched)].dur
         /\ nextStartTimeRef >= outNow[b.ctx] =>
              nextStartTimeRef' = nextStartTimeRef + b.dur]_vars

\* Two buffers were scheduled, the second back to back with the first, on
\* a clock that had advanced past zero.
C9_Witness ==
  /\ Len(sched) = 2
  /\ sched[1].start > 0
  /\ sched[2].start = sched[1].start + sched[1].dur
  /\ nextStartTimeRef = sched[2].start + sched[2].dur
  /\ Len(evts) = 1 /\ evts[1].k = "src.start"

\* C10: of two scheduled buffers, the one whose message onmessage received
\* first has the earlier start time.
C10_ScheduledInReceiptOrder ==
  \A x, y \in 1..Len(sched) :
    sched[x].n < sched[y].n => sched[x].start < sched[y].start

\* C11: a frame delivered to onaudioprocess while its session is Open and
\* not muted is handed to sendRealtimeInput once, on that session, in the
\* step that delivered it, and it is the newest frame captured; no frame
\* captured while Open is sent at any later time, so the sends keep the
\* order of capture without loss or duplication.
C11_OpenFramesSentOnceInOrder ==
  [][/\ (evts' # <<>> /\ evts'[1].k = "audioprocess"
           /\ evts'[1].open /\ ~evts'[1].a.muted) =>
          /\ Len(evts') = 2
          /\ evts'[2].k = "send" /\ evts'[2].i = evts'[1].i
          /\ evts'[2].a.f = evts'[1].a.f
          /\ evts'[1].a.f = nFrames + 1
     /\ \A n \in 1..Len(evts') :
          evts'[n].k = "send" /\ evts'[n].a.open =>
            /\ n = 2 /\ evts'[1].k = "audioprocess"
            /\ evts'[1].i = evts'[n].i /\ evts'[1].a.f = evts'[n].a.f]_vars

\* The second frame captured was delivered to an Open session and sent.
C11_Witness ==
  /\ nFrames = 2 /\ Len(evts) = 2
  /\ evts[1].k = "audioprocess" /\ evts[1].open /\ evts[1].a.f = 2
  /\ evts[2].k = "send" /\ evts[2].a.f = 2

\* The step's updates of one callback (kind), final or not.
Updates(es, kind, final) ==
  SelectSeq(es, LAMBDA e : e.k = kind /\ e.a.final = final)

\* es records a message the handler accepted.
Received(es) == es # <<>> /\ es[1].k = "onmessage"

\* What C12 says of one direction in a step that received message n: buf
\* is the direction's buffer before the step, buf2 after it, has: the
\* message carries a delta for the direction.
Finalizes(es, kind, buf, buf2, has, turn, n) ==
  LET acc == IF has THEN buf \o <<n>> ELSE buf
      nonfinal == Updates(es, kind, FALSE)
      final == Updates(es, kind, TRUE)
  IN /\ has => Len(nonfinal) = 1 /\ nonfinal[1].a.text = acc
     /\ ~has => nonfinal = <<>>
     /\ (turn /\ acc # <<>>) =>
          Len(final) = 1 /\ final[1].a.text = acc /\ buf2 = <<>>
     /\ ~turn => final = <<>> /\ buf2 = acc
     /\ (has /\ buf = <<>>) => nonfinal[1].a.text = <<n>>

\* C12: per direction, a delta is appended to the direction's buffer and a
\* non-final update carrying the whole accumulated text is emitted; a
\* turn-complete emits exactly one final update carrying the accumulated
\* text and empties the buffer; a delta that finds the buffer empty, as
\* after a turn-complete, yields a non-final update of that delta alone.
C12_TranscriptFinalization ==
  [][Received(evts') =>
       LET m == evts'[1].a.m
           n == evts'[1].a.n
       IN /\ Finalizes(evts', "onUserTranscript", userTranscriptBuffer,
                       userTranscriptBuffer', m.inT, m.turn, n)
          /\ Finalizes(evts', "onModelTranscript", modelTranscriptBuffer,
                       modelTranscriptBuffer', m.outT, m.turn, n)]_vars

\* What C13 says of one direction in a step that received a turn-complete:
\* prev: the step before it received a turn-complete as well.
NoEmptyFinal(es, kind, buf, has, prev) ==
  /\ Len(Updates(es, kind, TRUE)) <= 1
  /\ (~has /\ (buf = <<>> \/ prev)) => Updates(es, kind, TRUE) = <<>>

\* C13: a turn-complete received for a direction whose buffer is empty
\* emits no final update for that direction, and of two consecutive
\* turn-completes the second emits none; a turn-complete that brings no
\* delta and finds both buffers empty makes no final call at all, so its
\* handler does not end in the catch of 262 either.
C13_NoFinalForEmptyBuffer ==
  [][(Received(evts') /\ evts'[1].a.m.turn) =>
       LET m == evts'[1].a.m
           prev == Received(evts) /\ evts[1].a.m.turn
       IN /\ NoEmptyFinal(evts', "onUserTranscript", userTranscriptBuffer,
                          m.inT, prev)
          /\ NoEmptyFinal(evts', "onModelTranscript", modelTranscriptBuffer,
                          m.outT, prev)
          /\ (/\ ~m.inT /\ ~m.outT
              /\ userTranscriptBuffer = <<>> /\ modelTranscriptBuffer = <<>>)
               => \A k \in 1..Len(evts') : evts'[k].k # "console.error"]_vars

\* The second message was a bare turn-complete that found both buffers
\* empty: nothing but its receipt happened.
C13_Witness ==
  /\ Received(evts) /\ evts[1].a.n = 2 /\ Len(evts) = 1
  /\ evts[1].a.m.turn /\ ~evts[1].a.m.inT /\ ~evts[1].a.m.outT
  /\ userTranscriptBuffer = <<>> /\ modelTranscriptBuffer = <<>>

\* Spec 4.4: the argument payload is a non-empty list of descriptors that
\* have brand, name, price and description.
ValidList(hasList, products) ==
  /\ hasList /\ products # <<>>
  /\ \A k \in 1..Len(products) : products[k] \in Products

\* The step's effects of one kind for the call with this id.
ForCall(es, kind, id) == SelectSeq(es, LAMBDA e : e.k = kind /\ e.a.id = id)

\* The host's callback returns for every call of the list.
AllReturn(calls) == \A k \in 1..Len(calls) : ~calls[k].throws

\* What C14 says of the calls of message n once its handler has run.
Dispatched(es, n, calls) ==
  \A k \in 1..Len(calls) :
    LET c == calls[k]
        found == ForCall(es, "onProductsFound", <<n, k>>)
        resp == ForCall(es, "toolResponse", <<n, k>>)
    IN /\ (c.name = "displayProducts" /\ ValidList(c.hasList, c.products)) =>
            /\ Len(found) = 1 /\ found[1].a.products = c.products
            /\ Len(resp) = 1
       /\ c.name # "displayProducts" => found = <<>> /\ resp = <<>>

\* C14: when the handler of a tool-call message received on an Open
\* session has run (at once, or when the decode of the message's audio has
\* settled with the session still Open), each displayProducts call with a
\* valid list had onProductsFound invoked once with those products and one
\* tool response with its id sent, and each call of another name had
\* neither.  Taken for messages whose callbacks all return.
C14_ToolCallsDispatched ==
  [][/\ (Received(evts') /\ evts'[1].open /\ decoding' = decoding
           /\ AllReturn(evts'[1].a.m.tool)) =>
          Dispatched(evts', evts'[1].a.n, evts'[1].a.m.tool)
     /\ \A d \in decoding \ decoding' :
          (SessOpen(d.i) /\ AllReturn(d.calls)) =>
            Dispatched(evts', d.n, d.calls)]_vars

\* C15: onProductsFound is not invoked, and no tool response is sent, for
\* a displayProducts call whose product list is missing, empty, or holds
\* a descriptor that lacks a required field.
C15_InvalidPayloadIgnored ==
  \A n \in 1..Len(evts) :
    /\ evts[n].k = "onProductsFound" =>
         ValidList(evts[n].a.hasList, evts[n].a.products)
    /\ evts[n].k = "toolResponse" =>
         \E f \in 1..Len(evts) :
           /\ evts[f].k = "onProductsFound" /\ evts[f].a.id = evts[n].a.id
           /\ ValidList(evts[f].a.hasList, evts[f].a.products)

\* C19: a tool response is sent only after onProductsFound has returned
\* for the same call, never for a call whose callback threw, and never
\* when the session is no longer Open as the send continuation runs.
C19_ResponseAfterCallbackWhileActive ==
  \A n \in 1..Len(evts) :
    evts[n].k = "toolResponse" =>
      /\ \E f \in 1..(n - 1) :
           /\ evts[f].k = "onProductsFound" /\ evts[f].a.id = evts[n].a.id
           /\ ~evts[f].a.threw
      /\ evts[n].open

\* The order of the handlers of one message (VoiceMode.tsx 197-261).
Rank(e) ==
  IF e.k = "onmessage" THEN 0
  ELSE IF e.k \in {"onUserTranscript", "onModelTranscript"}
    THEN (IF e.a.final THEN 2 ELSE 1)
  ELSE IF e.k = "src.start" THEN 3
  ELSE 4

\* The tool-call handler ran for every displayProducts call of the list.
ToolHandlerRan(es, n, calls) ==
  \A k \in 1..Len(calls) :
    calls[k].name = "displayProducts" =>
      ForCall(es, "onProductsFound", <<n, k>>) # <<>>

\* C20: the handlers of one message run in the order transcription deltas,
\* turn-complete, audio output, tool call; and when the handler of a
\* message that carries several payloads ends, the tool calls have been
\* handled, also when the audio payload failed to decode or the output
\* context was gone.  Taken for messages whose callbacks all return.
C20_AllHandlersRun ==
  [][/\ (Received(evts') \/ decoding' # decoding) =>
          \A x, y \in 1..Len(evts') :
            x < y => Rank(evts'[x]) <= Rank(evts'[y])
     /\ (Received(evts') /\ decoding' = decoding
           /\ AllReturn(evts'[1].a.m.tool)) =>
          ToolHandlerRan(evts', evts'[1].a.n, evts'[1].a.m.tool)
     /\ \A d \in decoding \ decoding' :
          AllReturn(d.calls) => ToolHandlerRan(evts', d.n, d.calls)]_vars

\* The sessions live.connect delivered that nobody has closed.
Unclosed == {i \in Invs : tr[i] = "open"}

\* C16: at most one remote session is un-closed at any time; the host of
\* the model sets isOpen to true only when it is false.
C16_AtMostOneLiveSession == Cardinality(Unclosed) <= 1

\* The step scheduled a playback buffer.
Scheduled(es) == \E n \in 1..Len(es) : es[n].k = "src.start"

\* Right after a buffer is scheduled the watermark is not behind the clock
\* of the context the buffer was scheduled on.
NotBehindClock ==
  \A n \in 1..Len(evts') :
    evts'[n].k = "src.start" => nextStartTimeRef' >= outNow'[evts'[n].a.ctx]

\* C17 (as claimed): the watermark never decreases, and right after a
\* buffer is scheduled it is not behind the output clock.
C17_WatermarkNeverDecreases ==
  [][nextStartTimeRef' >= nextStartTimeRef /\ NotBehindClock]_vars

\* C17 (amended): the watermark decreases only when cleanup resets it to
\* zero; between two cleanups it never decreases, and right after a buffer
\* is scheduled it is not behind the output clock.
C17_WatermarkDecreasesOnlyByReset ==
  [][/\ nextStartTimeRef' < nextStartTimeRef =>
          /\ nextStartTimeRef' = 0
          /\ \E n \in 1..Len(evts') : evts'[n].k = "reset"
     /\ NotBehindClock]_vars

\* After a cleanup had reset the watermark, the next session's context
\* ran to clock 1 and a buffer was scheduled on it: the watermark is past
\* the clock again.
C17_Witness ==
  /\ tornUpTo >= 1 /\ Scheduled(evts) /\ Len(sched) = 1
  /\ outNow[sched[1].ctx] = 1 /\ sched[1].ctx > 1
  /\ nextStartTimeRef = sched[1].start + sched[1].dur
  /\ nextStartTimeRef > outNow[sched[1].ctx]

\* C18: live.connect is invoked only when no session has ended since the
\* host last turned isOpen from false to true, and at most once by the
\* invocation of startLiveSession that such a turn started.
C18_NoAutomaticReconnect ==
  [][\A n \in 1..Len(evts') :
       evts'[n].k = "connect" =>
         /\ ~endedSince
         /\ tr[evts'[n].i] = "none"]_vars

\* The step ended a message handler in its catch (VoiceMode.tsx 262-264).
Failed(es) == \E n \in 1..Len(es) : es[n].k = "console.error"

\* The failure of a message handler is contained: no session changes state,
\* the host is not told to close, nothing is released or stored, and the
\* watermark, the schedule and the pending callbacks stay as they were.
Contained ==
  /\ UNCHANGED <<tr, tornUpTo, pc, thenQ>>
  /\ UNCHANGED <<isOpen, onCloseCount>>
  /\ UNCHANGED <<refs, inCtx, outCtx, stream, proc, closeReq, stopCount>>
  /\ UNCHANGED <<nextStartTimeRef, sched>>

\* The text of message n is in neither transcript buffer.
Absent(n) ==
  /\ \A k \in 1..Len(userTranscriptBuffer') : userTranscriptBuffer'[k] # n
  /\ \A k \in 1..Len(modelTranscriptBuffer') : modelTranscriptBuffer'[k] # n

\* C21 (as claimed): when the handler of a message ends in its catch, the
\* failure is contained and what follows is processed as if the message
\* had not arrived: nothing of the message is left in the buffers.
C21_AsIfNotArrived ==
  [][Failed(evts') =>
       /\ Contained
       /\ \A n \in 1..Len(evts') :
            evts'[n].k = "console.error" => Absent(evts'[n].a)]_vars

\* C21 (amended): when the handler of a message ends in its catch, the
\* failure is contained and the catch changes no buffer: a delta appended
\* before the failure stays, nothing else of the buffers changes, and a
\* failure after the await changes no buffer at all.
C21_FailureContained ==
  [][Failed(evts') =>
       /\ Contained
       /\ IF Received(evts')
            THEN LET m == evts'[1].a.m
                     n == evts'[1].a.n
                 IN /\ userTranscriptBuffer' \in
                         {userTranscriptBuffer,
                          appendDelta(userTranscriptBuffer, m.inT, n)}
                    /\ modelTranscriptBuffer' \in
                         {modelTranscriptBuffer,
                          appendDelta(modelTranscriptBuffer, m.outT, n)}
            ELSE UNCHANGED <<userTranscriptBuffer, modelTranscriptBuffer>>]_vars

\* The handler of a message that brought a user delta ended in its catch
\* on an Open session, which is still Open and holds the delta.
C21_Witness ==
  /\ Received(evts) /\ Len(evts) = 2 /\ evts[2].k = "console.error"
  /\ SessOpen(evts[2].i) /\ onCloseCount[evts[2].i] = 0
  /\ userTranscriptBuffer = <<evts[2].a>>

\* C22: a frame captured while its session was not Open (the connect
\* promise still pending, or closing begun) is discarded: no frame waits
\* in a then callback for the promise, and every frame that is sent was
\* captured while the session was Open.
C22_FramesOutsideOpenDiscarded ==
  /\ \A i \in Invs : \A k \in 1..Len(thenQ[i]) : thenQ[i][k].k # "send"
  /\ \A n \in 1..Len(evts) : evts[n].k = "send" => evts[n].a.open

\* C23: once everything pending has run after getUserMedia failed for an
\* invocation of a component that is still mounted and closed, no connection was
\* initiated for it, its two audio contexts are released, and the host's
\* onClose was invoked exactly once for it.
C23_DeviceFailureReleases ==
  alive /\ ~isOpen /\ Settled /\ HostSettled =>
    \A i \in Invs :
      stream[i] = "denied" =>
        /\ tr[i] = "none"
        /\ inCtx[i] = "closed" /\ outCtx[i] = "closed"
        /\ onCloseCount[i] = 1

\* The release call that failed in the cleanup whose effects are es, or
\* "none".
FailedCall(es) ==
  IF \E n \in 1..Len(es) :
       es[n].k \in {"throw", "console.error", "unhandledrejection"}
    THEN es[CHOOSE n \in 1..Len(es) :
              es[n].k \in {"throw", "console.error", "unhandledrejection"}].a
    ELSE "none"

\* C24: a cleanup in which one release call fails still makes every other
\* release call it would have made, nulls every ref, resets both transcript
\* buffers and the watermark, and lets no exception reach its caller.
C24_TeardownProceeds ==
  [][FailedCall(evts') # "none" =>
       /\ \A n \in 1..Len(cleanupEvts) :
            \E k \in 1..Len(evts') : evts'[k].k = cleanupEvts[n].k
       /\ \A n \in 1..Len(evts') : evts'[n].k # "throw"
       /\ audioContextRef' = NULL /\ outputContextRef' = NULL
       /\ streamRef' = NULL /\ processorRef' = NULL /\ sourceRef' = NULL
       /\ activeSessionRef' = NULL
       /\ userTranscriptBuffer' = <<>> /\ modelTranscriptBuffer' = <<>>
       /\ nextStartTimeRef' = 0]_vars

\* The step of the closing sequence an effect belongs to: 1 the session
\* close request, 2 capture stopped, 3 stream and contexts released, 4 the
\* reset of buffers and watermark; 0 for any other effect.
TeardownStep(k) ==
  CASE k = "session.close" -> 1
    [] k \in {"processor.disconnect", "source.disconnect"} -> 2
    [] k \in {"track.stop", "inputCtx.close", "outputCtx.close"} -> 3
    [] k = "reset" -> 4
    [] OTHER -> 0

\* C25: the effects of one teardown occur in the order of steps (1) to (4),
\* and the host's onClose for a session that closed is called only after
\* the teardown of that session has reset the buffers and the watermark.
C25_TeardownOrder ==
  /\ \A n, m \in 1..Len(evts) :
       n < m /\ TeardownStep(evts[n].k) > 0 /\ TeardownStep(evts[m].k) > 0
         => TeardownStep(evts[n].k) <= TeardownStep(evts[m].k)
  /\ \A n \in 1..Len(evts) :
       evts[n].k = "onClose" /\ evts[n].a = "onclose" => evts[n].torn

\* No ref holds anything, both transcript buffers are empty and the
\* watermark is zero.
NothingHeld ==
  /\ audioContextRef = NULL /\ outputContextRef = NULL /\ streamRef = NULL
  /\ processorRef = NULL /\ sourceRef = NULL /\ activeSessionRef = NULL
  /\ userTranscriptBuffer = <<>> /\ modelTranscriptBuffer = <<>>
  /\ nextStartTimeRef = 0

\* The effects es are those of a cleanup, completed or left by an exception.
CleanupRan(es) == \E n \in 1..Len(es) : es[n].k \in {"reset", "throw"}

\* C26: a cleanup that starts with nothing held makes no release call on
\* any session, node, stream or context, raises no error, and leaves every
\* ref null, both transcript buffers empty and the watermark zero.
C26_CleanupOfNothing ==
  [][NothingHeld /\ CleanupRan(evts') =>
       /\ Len(evts') = 1 /\ evts'[1].k = "reset"
       /\ UNCHANGED <<refs, bufs, objs, closeReq, stopCount>>]_vars

\* A cleanup has just run with nothing held, after an open that failed
\* before acquiring anything.
C26_Witness ==
  /\ NothingHeld
  /\ Len(evts) = 1 /\ evts[1].k = "reset"
  /\ pc[1] = "returned" /\ inCtx[1] = "none" /\ stream[1] = "none"

\* C27: every sample n / SampleDen in [-1, 1] is stored as the integer part
\* of its product with 32768, a value in -32768..32767 whose sign is not
\* opposite to the sample's.
C27_EncodingWithoutWrapAround ==
  \A k \in 1..Len(int16) :
    /\ int16[k] = trunc(inputData[k], SampleDen \div 32768)
    /\ int16[k] \in -32768..32767
    /\ inputData[k] > 0 => int16[k] >= 0
    /\ inputData[k] < 0 => int16[k] <= 0

====
